---- MODULE Spec2Model ----
(***************************************************************************)
(* A model of the client of the simulation front end:                     *)
(*   src/components/MediaHandler.jsx  the double-buffered clip player     *)
(*   src/pages/simulation.jsx         the session page (push channel,     *)
(*                                    submit, conclusion)                 *)
(*                                                                         *)
(* React semantics assumed (React 18, production build): all state        *)
(* updates made by one event handler, timer callback or effect pass are   *)
(* batched; the component then re-renders, the DOM is reconciled, the     *)
(* cleanups of the effects whose dependencies changed run, then those     *)
(* effects run, in declaration order; updates made by effects cause a     *)
(* further render.  A closure (listener, timer callback) reads the state  *)
(* of the render that created it; refs are read live.  One action of the  *)
(* model is one handler together with the renders and effects it causes.  *)
(*                                                                         *)
(* Media elements follow the HTML media element rules: load() resets the  *)
(* element to paused and loading; 'canplay' or 'error' ends a load;       *)
(* 'ended' fires on an element that is playing and leaves it paused.  An  *)
(* element removed from the document is dropped with its listeners.       *)
(* The position t of an element (currentTime) is counted on the timeline  *)
(* the audio and the clips share, in steps larger than any tolerance: two *)
(* elements are in sync when their positions are equal, playing moves     *)
(* both alike, and only load() and a seek move one against the other.     *)
(***************************************************************************)
EXTENDS Integers, Sequences, FiniteSets, TLC

VARIABLES mh, pg, net, last, budget

vars == <<mh, pg, net, last, budget>>

(***************************************************************************)
(* URLs are sequences of tokens; "/" is a slash, "http" the scheme of an  *)
(* absolute URL, any other token a piece of a path.  EmptyUrl is '', Null *)
(* is null, Undefined is undefined.                                       *)
(***************************************************************************)
EmptyUrl == <<>>

Null == <<"null">>

Undefined == <<"undefined">>

NaN == -1

Falsy(u) == u = EmptyUrl \/ u = Null \/ u = Undefined

RECURSIVE StripLeadingSlashes(_)
StripLeadingSlashes(u) == IF Len(u) > 0 /\ Head(u) = "/" THEN StripLeadingSlashes(Tail(u)) ELSE u

\* the tokens whose text starts with the four letters 'http': the scheme of an
\* absolute URL, and a path segment such as 'httpdocs'
HttpPrefixed == {"http", "httpdocs"}

\* url.startsWith('http') (lines 45 and 66)
StartsWithHttp(u) == Len(u) > 0 /\ Head(u) \in HttpPrefixed

\* the URL is absolute: it starts with a scheme
IsAbsolute(u) == Len(u) > 0 /\ Head(u) = "http"

FormatUrl(u) == IF StartsWithHttp(u) THEN u ELSE <<"/">> \o StripLeadingSlashes(u)

RECURSIVE FormatPlaylist(_)
FormatPlaylist(urls) ==
  IF urls = <<>> THEN <<>>
  ELSE IF Falsy(Head(urls)) THEN FormatPlaylist(Tail(urls))
  ELSE <<FormatUrl(Head(urls))>> \o FormatPlaylist(Tail(urls))

(***************************************************************************)
(* Media elements.                                                         *)
(***************************************************************************)
Slots == {"primary", "buffer"}

OtherSlot(s) == IF s = "primary" THEN "buffer" ELSE "primary"

NoElement == [ex |-> FALSE, src |-> EmptyUrl, ls |-> "none", paused |-> TRUE, t |-> 0]

FreshElement == [ex |-> TRUE, src |-> EmptyUrl, ls |-> "none", paused |-> TRUE, t |-> 0]

\* el.src = url; el.load(): the playback position goes back to 0
LoadElement(url) == [ex |-> TRUE, src |-> url, ls |-> "loading", paused |-> TRUE, t |-> 0]

\* el.play(): accepted on an element that has a resource, rejected otherwise
PlayElement(el) == IF el.ex /\ el.ls \in {"loading", "canplay"} THEN [el EXCEPT !.paused = FALSE] ELSE el

\* el.pause()
PauseElement(el) == [el EXCEPT !.paused = TRUE]

IsPlayingElement(el) == el.ex /\ el.ls = "canplay" /\ ~el.paused

(***************************************************************************)
(* The MediaHandler component.  A mounted component is a record holding   *)
(* its props, its state (useState), its refs, the media elements, the     *)
(* registered listeners with the values their closures captured, the      *)
(* pending re-check timer, and the values of the last render (rendered).  *)
(***************************************************************************)
StateFields ==
  {"error", "currentVideoIndex", "activeVideoUrl", "activeAudioUrl", "isPlaying",
   "allMediaReady", "currentVideoReady", "nextVideoReady", "audioElementReady",
   "showPlayButton", "hasUserInteracted", "activeVideoRef"}

NoListener == [on |-> "none", nvr |-> FALSE, idx |-> 0]

NoEndedListener == [on |-> FALSE, avr |-> "primary", nvr |-> FALSE, idx |-> 0]

NoSyncListener == [on |-> FALSE, avr |-> "primary"]

NotRendered == [done |-> FALSE]

Unmounted == [mounted |-> FALSE]

InitialComponent(urls, audio, id) ==
  [mounted |-> TRUE,
   video_urls |-> urls, audio_url |-> audio, propsId |-> id,
   error |-> FALSE, currentVideoIndex |-> 0, activeVideoUrl |-> EmptyUrl,
   activeAudioUrl |-> EmptyUrl, isPlaying |-> FALSE, allMediaReady |-> FALSE,
   currentVideoReady |-> FALSE, nextVideoReady |-> FALSE, audioElementReady |-> FALSE,
   showPlayButton |-> FALSE, hasUserInteracted |-> FALSE, activeVideoRef |-> "primary",
   validVideoUrls |-> <<>>,
   primary |-> NoElement, buffer |-> NoElement, audio |-> NoElement,
   lsnActive |-> NoListener, lsnBuffer |-> "none", lsnAudio |-> FALSE,
   lsnEnded |-> NoEndedListener, lsnSync |-> NoSyncListener, lsnAudioEnd |-> FALSE,
   recheckPending |-> FALSE,
   rendered |-> NotRendered]

\* what a render reads: the state, the props and validVideoUrls.current.length
RenderValues(w) ==
  [done |-> TRUE, propsId |-> w.propsId, audio_url |-> w.audio_url,
   len |-> Len(w.validVideoUrls),
   state |-> [f \in StateFields |-> w[f]]]

\* which of the three return statements of the render is taken
RenderBranch(w) ==
  IF w.error /\ Len(w.validVideoUrls) > 0 /\ w.currentVideoIndex >= Len(w.validVideoUrls) - 1
  THEN "media-error"
  ELSE IF Len(w.validVideoUrls) = 0 /\ Falsy(w.activeAudioUrl) THEN "media-loading"
  ELSE "media-container"

(***************************************************************************)
(* Reconciliation: the two video elements exist only in the               *)
(* media-container render, the audio element only when activeAudioUrl is  *)
(* also truthy (line 555).  Listeners of a removed element go with it.    *)
(***************************************************************************)
ReconcileDom(w) ==
  LET player == RenderBranch(w) = "media-container"
      keep(el) == IF el.ex THEN el ELSE FreshElement
      hasAudio == player /\ ~Falsy(w.activeAudioUrl)
  IN [w EXCEPT
        !.primary = IF player THEN keep(@) ELSE NoElement,
        !.buffer = IF player THEN keep(@) ELSE NoElement,
        !.audio = IF hasAudio THEN keep(@) ELSE NoElement,
        !.lsnActive = IF player THEN @ ELSE NoListener,
        !.lsnBuffer = IF player THEN @ ELSE "none",
        !.lsnEnded = IF player THEN @ ELSE NoEndedListener,
        !.lsnAudio = hasAudio /\ @,
        !.lsnSync = IF hasAudio THEN @ ELSE NoSyncListener,
        !.lsnAudioEnd = hasAudio /\ @]

(***************************************************************************)
(* The effects.  w is the component as the effects so far left it (their  *)
(* state updates are queued in it); R holds the values of the render the  *)
(* effect closes over.                                                     *)
(***************************************************************************)
\* lines 39-78: the playlist effect
PlaylistEffect(w, R) ==
  LET playlist == FormatPlaylist(w.video_urls)
      hasAudio == ~Falsy(w.audio_url)
  IN [w EXCEPT
        !.validVideoUrls = playlist,
        !.currentVideoIndex = 0,
        !.activeVideoUrl = IF Len(playlist) > 0 THEN playlist[1] ELSE EmptyUrl,
        !.currentVideoReady = FALSE,
        !.nextVideoReady = FALSE,
        !.allMediaReady = FALSE,
        !.activeAudioUrl = IF hasAudio THEN FormatUrl(w.audio_url) ELSE EmptyUrl,
        !.audioElementReady = ~hasAudio,
        !.activeVideoRef = "primary"]

\* lines 81-115: load the current video in the active player
LoadCurrentVideoEffect(w, R) ==
  LET slot == R.state.activeVideoRef
      url == R.state.activeVideoUrl
  IN IF ~w[slot].ex \/ Falsy(url)
     THEN [w EXCEPT !.currentVideoReady = (Len(w.validVideoUrls) = 0)]
     ELSE [w EXCEPT ![slot] = LoadElement(url),
                    !.lsnActive = [on |-> slot, nvr |-> R.state.nextVideoReady,
                                   idx |-> R.state.currentVideoIndex]]

\* i + 1 without the % n of line 257
NextIndexNoWrap(i, n) == IF n = 0 \/ i = NaN THEN NaN ELSE i + 1

\* (i + 1) % n as JavaScript computes it: NaN when n = 0 or i is NaN
NextIndex(i, n) == IF n = 0 \/ i = NaN THEN NaN ELSE (i + 1) % n

\* validVideoUrls.current[i]
ClipAt(urls, i) == IF i = NaN \/ i >= Len(urls) THEN Undefined ELSE urls[i + 1]

\* lines 118-154: preload the next video in the inactive player
PreloadNextVideoEffect(w, R) ==
  LET n == Len(w.validVideoUrls)
      url == ClipAt(w.validVideoUrls, NextIndex(R.state.currentVideoIndex, n))
      slot == OtherSlot(R.state.activeVideoRef)
  IN IF n <= 1 THEN [w EXCEPT !.nextVideoReady = TRUE]
     ELSE IF ~w[slot].ex \/ Falsy(url) THEN w
     ELSE [w EXCEPT ![slot] = LoadElement(url), !.lsnBuffer = slot]

\* lines 157-185: load the audio element
AudioLoadEffect(w, R) ==
  IF ~w.audio.ex \/ Falsy(R.state.activeAudioUrl)
  THEN [w EXCEPT !.audioElementReady = TRUE]
  ELSE [w EXCEPT !.audio = LoadElement(R.state.activeAudioUrl), !.lsnAudio = TRUE]

\* lines 188-200: overall media readiness
AllMediaReadyEffect(w, R) ==
  [w EXCEPT !.allMediaReady =
     IF Len(w.validVideoUrls) = 0 THEN TRUE
     ELSE R.state.currentVideoReady /\ R.state.audioElementReady]

\* lines 203-208: show the play button when media is ready
ShowPlayButtonEffect(w, R) ==
  IF R.state.allMediaReady /\ w[R.state.activeVideoRef].ex /\ Len(w.validVideoUrls) > 0
  THEN [w EXCEPT !.showPlayButton = TRUE]
  ELSE w

\* lines 267-292: 'ended' listeners on both players
EndedListenersEffect(w, R) ==
  IF ~w.primary.ex \/ ~w.buffer.ex THEN w
  ELSE [w EXCEPT !.lsnEnded = [on |-> TRUE, avr |-> R.state.activeVideoRef,
                               nvr |-> R.state.nextVideoReady,
                               idx |-> R.state.currentVideoIndex]]

\* lines 295-331: audio 'play' / 'pause' listeners
SyncListenersEffect(w, R) ==
  IF ~w.primary.ex \/ ~w.buffer.ex \/ ~w.audio.ex THEN w
  ELSE [w EXCEPT !.lsnSync = [on |-> TRUE, avr |-> R.state.activeVideoRef]]

\* lines 334-360: audio 'ended' listener
AudioEndListenerEffect(w, R) ==
  IF ~w.audio.ex THEN w ELSE [w EXCEPT !.lsnAudioEnd = TRUE]

(***************************************************************************)
(* One render and commit: reconcile the DOM, run the cleanups of the      *)
(* effects whose dependency arrays changed, then those effects in order   *)
(* (an effect runs when one of its dependencies changed).                 *)
(***************************************************************************)
EffectDeps(R) ==
  [playlist |-> <<R.propsId, R.audio_url>>,
   load |-> <<R.state.activeVideoUrl, R.state.activeVideoRef>>,
   preload |-> <<R.state.currentVideoIndex, R.state.activeVideoRef, R.len>>,
   audio |-> <<R.state.activeAudioUrl>>,
   ready |-> <<R.state.currentVideoReady, R.state.audioElementReady, R.len>>,
   button |-> <<R.state.allMediaReady, R.state.activeVideoUrl>>,
   ended |-> <<R.state.activeVideoRef, R.state.currentVideoIndex, R.state.nextVideoReady>>,
   sync |-> <<R.state.activeVideoRef>>,
   audioEnd |-> <<R.state.activeAudioUrl>>]

\* an effect runs when one of its dependencies changed
RunEffect(name, ch, w, R) ==
  IF ~ch[name] THEN w
  ELSE CASE name = "playlist" -> PlaylistEffect(w, R)
         [] name = "load" -> LoadCurrentVideoEffect(w, R)
         [] name = "preload" -> PreloadNextVideoEffect(w, R)
         [] name = "audio" -> AudioLoadEffect(w, R)
         [] name = "ready" -> AllMediaReadyEffect(w, R)
         [] name = "button" -> ShowPlayButtonEffect(w, R)
         [] name = "ended" -> EndedListenersEffect(w, R)
         [] name = "sync" -> SyncListenersEffect(w, R)
         [] name = "audioEnd" -> AudioEndListenerEffect(w, R)

\* the cleanups of the effects that are about to run again remove their listeners
RunCleanups(w, ch) ==
  [w EXCEPT
     !.lsnActive = IF ch["load"] THEN NoListener ELSE @,
     !.lsnBuffer = IF ch["preload"] THEN "none" ELSE @,
     !.lsnAudio = IF ch["audio"] THEN FALSE ELSE @,
     !.lsnEnded = IF ch["ended"] THEN NoEndedListener ELSE @,
     !.lsnSync = IF ch["sync"] THEN NoSyncListener ELSE @,
     !.lsnAudioEnd = IF ch["audioEnd"] THEN FALSE ELSE @]

EffectNames == {"playlist", "load", "preload", "audio", "ready", "button", "ended", "sync", "audioEnd"}

Commit(w) ==
  LET R == RenderValues(w)
      ch == [e \in EffectNames |-> ~w.rendered.done \/ EffectDeps(R)[e] # EffectDeps(w.rendered)[e]]
      c == RunCleanups(ReconcileDom(w), ch)
      e1 == RunEffect("playlist", ch, c, R)
      e2 == RunEffect("load", ch, e1, R)
      e3 == RunEffect("preload", ch, e2, R)
      e4 == RunEffect("audio", ch, e3, R)
      e5 == RunEffect("ready", ch, e4, R)
      e6 == RunEffect("button", ch, e5, R)
      e7 == RunEffect("ended", ch, e6, R)
      e8 == RunEffect("sync", ch, e7, R)
      e9 == RunEffect("audioEnd", ch, e8, R)
  IN [e9 EXCEPT !.rendered = R]

NeedsRender(w) ==
  \/ ~w.rendered.done
  \/ w.rendered.propsId # w.propsId
  \/ w.rendered.audio_url # w.audio_url
  \/ w.rendered.state # [f \in StateFields |-> w[f]]

RECURSIVE Settle(_)
Settle(w) == IF NeedsRender(w) THEN Settle(Commit(w)) ELSE w

(***************************************************************************)
(* Handlers of MediaHandler.  nvr and idx are nextVideoReady and          *)
(* currentVideoIndex as the closure that calls the handler captured them. *)
(***************************************************************************)
\* lines 241-264 without the setCurrentVideoIndex of line 258
handleVideoEndedKeepsIndex(w, nvr, idx) ==
  IF ~nvr
  THEN [w EXCEPT !.isPlaying = FALSE, !.recheckPending = TRUE]
  ELSE LET next == NextIndex(idx, Len(w.validVideoUrls))
       IN [w EXCEPT !.isPlaying = FALSE,
                    !.activeVideoRef = OtherSlot(@),
                    !.activeVideoUrl = ClipAt(w.validVideoUrls, next),
                    !.currentVideoReady = nvr,
                    !.nextVideoReady = FALSE]

\* lines 241-264
handleVideoEnded(w, nvr, idx) ==
  IF ~nvr
  THEN [w EXCEPT !.isPlaying = FALSE, !.recheckPending = TRUE]
  ELSE LET next == NextIndex(idx, Len(w.validVideoUrls))
       IN [w EXCEPT !.isPlaying = FALSE,
                    !.activeVideoRef = OtherSlot(@),
                    !.currentVideoIndex = next,
                    !.activeVideoUrl = ClipAt(w.validVideoUrls, next),
                    !.currentVideoReady = nvr,
                    !.nextVideoReady = FALSE]

\* lines 92-97
handleVideoCanPlay(w) == [w EXCEPT !.currentVideoReady = TRUE, !.error = FALSE]

\* lines 99-106
handleVideoError(w) ==
  handleVideoEnded([w EXCEPT !.currentVideoReady = FALSE, !.error = TRUE],
                   w.lsnActive.nvr, w.lsnActive.idx)

\* lines 137-140
handleBufferCanPlay(w) == [w EXCEPT !.nextVideoReady = TRUE]

\* lines 142-145
handleBufferError(w) == [w EXCEPT !.nextVideoReady = FALSE]

\* lines 168-171
handleAudioCanPlay(w) == [w EXCEPT !.audioElementReady = TRUE]

\* line 175 with the flag left unsatisfied
handleAudioErrorBlocks(w) == [w EXCEPT !.audioElementReady = FALSE]

\* lines 173-176
handleAudioError(w) == [w EXCEPT !.audioElementReady = TRUE]

\* lines 302-306 and 316-318: audio 'play' starts the video the closure holds
handleAudioPlay(w) ==
  LET slot == w.lsnSync.avr
  IN IF ~Falsy(w.audio.src) /\ ~w.audio.paused /\ w[slot].paused
     THEN [w EXCEPT ![slot] = PlayElement(@)]
     ELSE w

\* lines 308-314 and 320-322
handleAudioPause(w) ==
  LET slot == w.lsnSync.avr
  IN IF ~Falsy(w.audio.src) /\ ~w[slot].paused /\ w.audio.paused
     THEN [w EXCEPT ![slot] = PauseElement(@)]
     ELSE IF ~Falsy(w.audio.src) /\ ~w.audio.paused /\ w[slot].paused
     THEN [w EXCEPT ![slot] = PlayElement(@)]
     ELSE w

\* lines 338-353
handleAudioEnd(w) ==
  [w EXCEPT !.primary = IF @.ex /\ ~@.paused THEN PauseElement(@) ELSE @,
            !.buffer = IF @.ex /\ ~@.paused THEN PauseElement(@) ELSE @,
            !.isPlaying = FALSE,
            !.currentVideoReady = FALSE,
            !.nextVideoReady = FALSE]

\* lines 363-378: the cleanup run when the component is unmounted pauses each
\* element its ref holds and sets its src to ''
unmountCleanup(w) ==
  LET release(el) == IF el.ex THEN [PauseElement(el) EXCEPT !.src = EmptyUrl, !.ls = "none"]
                     ELSE el
  IN [w EXCEPT !.primary = release(@), !.buffer = release(@), !.audio = release(@)]

\* lines 573-576: the overlay's onClick hides the button and then calls
\* playCurrentVideo, a name the module does not define (the player function is
\* playCurrentMedia, line 210): the call throws a ReferenceError, nothing plays
playButtonOnClick(w) == [w EXCEPT !.showPlayButton = FALSE]

\* line 560: the overlay is rendered
PlayButtonVisible(w) ==
  w.mounted /\ RenderBranch(w) = "media-container" /\ w.showPlayButton /\ ~w.isPlaying

(***************************************************************************)
(* Bounds and inputs of the player.                                        *)
(***************************************************************************)
MaxLoads == 2

MaxTime == 1

V1 == <<"v1">>

V2 == <<"/", "v2">>

V3 == <<"/", "/", "v3">>

A1 == <<"http", "a1">>

A2 == <<"a2">>

PlaylistChoices == {<<>>, <<EmptyUrl, V1>>, <<V1, V2>>, <<V1, V2, V3>>}

AudioChoices == {Null, A1, A2}

(***************************************************************************)
(* Actions of the player: one per event the component handles.  The       *)
(* history variable last names the event just handled; last.audioEnded    *)
(* records that handleAudioEnd ran since the playlist was last loaded,    *)
(* last.threw that the handler ended with an exception nobody caught (the *)
(* overlay's onClick, lines 573-576, ends with a ReferenceError).         *)
(***************************************************************************)
NoMsg == [type |-> "none"]

Event(name, slot) ==
  [ev |-> name, slot |-> slot, msg |-> NoMsg, threw |-> name = "PlayButtonClick",
   audioEnded |-> IF name \in {"PlayerMount", "PlayerPropsChange", "PlayerUnmount"} THEN FALSE
                  ELSE IF name = "AudioEnded" THEN last.audioEnded \/ mh.lsnAudioEnd
                  ELSE last.audioEnded]

\* 'canplay' on a video element whose load completes
VideoCanPlay(slot) ==
  /\ mh.mounted /\ mh[slot].ex /\ mh[slot].ls = "loading"
  /\ LET w0 == [mh EXCEPT ![slot].ls = "canplay"]
         w1 == IF w0.lsnActive.on = slot THEN handleVideoCanPlay(w0) ELSE w0
         w2 == IF w1.lsnBuffer = slot THEN handleBufferCanPlay(w1) ELSE w1
     IN mh' = Settle(w2)
  /\ last' = Event("VideoCanPlay", slot)
  /\ UNCHANGED <<pg, net, budget>>

\* 'error' on a video element whose load fails
VideoError(slot) ==
  /\ mh.mounted /\ mh[slot].ex /\ mh[slot].ls = "loading"
  /\ LET w0 == [mh EXCEPT ![slot].ls = "error"]
         w1 == IF w0.lsnActive.on = slot THEN handleVideoError(w0) ELSE w0
         w2 == IF w1.lsnBuffer = slot THEN handleBufferError(w1) ELSE w1
     IN mh' = Settle(w2)
  /\ last' = Event("VideoError", slot)
  /\ UNCHANGED <<pg, net, budget>>

\* 'canplaythrough' on the audio element
AudioCanPlayThrough ==
  /\ mh.mounted /\ mh.audio.ex /\ mh.audio.ls = "loading"
  /\ LET w0 == [mh EXCEPT !.audio.ls = "canplay"]
     IN mh' = Settle(IF w0.lsnAudio THEN handleAudioCanPlay(w0) ELSE w0)
  /\ last' = Event("AudioCanPlayThrough", "none")
  /\ UNCHANGED <<pg, net, budget>>

\* 'error' on the audio element
AudioError ==
  /\ mh.mounted /\ mh.audio.ex /\ mh.audio.ls = "loading"
  /\ LET w0 == [mh EXCEPT !.audio.ls = "error"]
     IN mh' = Settle(IF w0.lsnAudio THEN handleAudioError(w0) ELSE w0)
  /\ last' = Event("AudioError", "none")
  /\ UNCHANGED <<pg, net, budget>>

\* 'ended' on a video element that is playing: lines 273-283
VideoEnded(slot) ==
  /\ mh.mounted /\ IsPlayingElement(mh[slot])
  /\ LET w0 == [mh EXCEPT ![slot] = PauseElement(@)]
         w1 == IF w0.lsnEnded.on /\ w0.lsnEnded.avr = slot
               THEN handleVideoEnded(w0, w0.lsnEnded.nvr, w0.lsnEnded.idx)
               ELSE w0
     IN mh' = Settle(w1)
  /\ last' = Event("VideoEnded", slot)
  /\ UNCHANGED <<pg, net, budget>>

\* the audio reaches its end: 'pause', then 'ended'
AudioEnded ==
  /\ mh.mounted /\ IsPlayingElement(mh.audio)
  /\ LET w0 == [mh EXCEPT !.audio = PauseElement(@)]
         w1 == IF w0.lsnSync.on THEN handleAudioPause(w0) ELSE w0
         w2 == IF w1.lsnAudioEnd THEN handleAudioEnd(w1) ELSE w1
     IN mh' = Settle(w2)
  /\ last' = Event("AudioEnded", "none")
  /\ UNCHANGED <<pg, net, budget>>

\* Starting playback.  The component's own start path is the play button, whose
\* handler starts nothing (playButtonOnClick); a media element can still be
\* started by the user agent's own controls (context menu, media keys), which
\* the HTML standard allows for an element without the controls attribute.  The
\* user is taken to do so only once the component has reported its media ready
\* (allMediaReady, the condition under which it offers playback) and while the
\* play button overlay, which covers the player (lines 560-572), is not shown.
\* The component registers no 'play' listener on a video element.
UserAgentPlayVideo ==
  /\ mh.mounted /\ RenderBranch(mh) = "media-container"
  /\ mh.allMediaReady /\ ~PlayButtonVisible(mh)
  /\ mh[mh.activeVideoRef].ls = "canplay" /\ mh[mh.activeVideoRef].paused
  /\ mh' = [mh EXCEPT ![mh.activeVideoRef] = PlayElement(@)]
  /\ last' = Event("UserAgentPlayVideo", "none")
  /\ UNCHANGED <<pg, net, budget>>

\* the audio element starts the same way; its 'play' event reaches handleAudioPlay
UserAgentPlayAudio ==
  /\ mh.mounted /\ mh.allMediaReady /\ ~PlayButtonVisible(mh)
  /\ mh.audio.ex /\ mh.audio.ls = "canplay" /\ mh.audio.paused
  /\ LET w0 == [mh EXCEPT !.audio = PlayElement(@)]
     IN mh' = Settle(IF w0.lsnSync.on THEN handleAudioPlay(w0) ELSE w0)
  /\ last' = Event("UserAgentPlayAudio", "none")
  /\ UNCHANGED <<pg, net, budget>>

\* the user taps the play button overlay
PlayButtonClick ==
  /\ PlayButtonVisible(mh)
  /\ mh' = Settle(playButtonOnClick(mh))
  /\ last' = Event("PlayButtonClick", "none")
  /\ UNCHANGED <<pg, net, budget>>

\* the 20 ms timer of line 249 fires: it calls the handleVideoEnded closure that
\* set it, whose nextVideoReady is false
RecheckTimer ==
  /\ mh.mounted /\ mh.recheckPending
  /\ mh' = Settle(handleVideoEnded(mh, FALSE, 0))
  /\ last' = Event("RecheckTimer", "none")
  /\ UNCHANGED <<pg, net, budget>>

\* the user agent moves the playback position of the active clip ('seeking',
\* 'seeked'), under the same conditions as it starts it.  The component
\* registers no listener for either event and never writes currentTime outside
\* playCurrentMedia (line 221), which is never called.
UserAgentSeekVideo(t) ==
  /\ mh.mounted /\ RenderBranch(mh) = "media-container"
  /\ mh.allMediaReady /\ ~PlayButtonVisible(mh)
  /\ mh[mh.activeVideoRef].ls = "canplay" /\ mh[mh.activeVideoRef].t # t
  /\ mh' = Settle([mh EXCEPT ![mh.activeVideoRef].t = t])
  /\ last' = Event("UserAgentSeekVideo", mh.activeVideoRef)
  /\ UNCHANGED <<pg, net, budget>>

PlayerEvent ==
  \/ \E slot \in Slots : VideoCanPlay(slot)
  \/ \E slot \in Slots : VideoError(slot)
  \/ AudioCanPlayThrough
  \/ AudioError
  \/ \E slot \in Slots : VideoEnded(slot)
  \/ AudioEnded
  \/ UserAgentPlayVideo
  \/ UserAgentPlayAudio
  \/ PlayButtonClick
  \/ RecheckTimer

(***************************************************************************)
(* The player on its own: the parent mounts it, hands it new props        *)
(* (a new video_urls array each time), and unmounts it.                   *)
(***************************************************************************)
PlayerMount(urls, audio) ==
  /\ ~mh.mounted /\ budget.loads < MaxLoads
  /\ mh' = Settle(InitialComponent(urls, audio, 0))
  /\ budget' = [budget EXCEPT !.loads = @ + 1]
  /\ last' = Event("PlayerMount", "none")
  /\ UNCHANGED <<pg, net>>

PlayerPropsChange(urls, audio) ==
  /\ mh.mounted /\ budget.loads < MaxLoads
  /\ mh' = Settle([mh EXCEPT !.video_urls = urls, !.audio_url = audio, !.propsId = 1 - @])
  /\ budget' = [budget EXCEPT !.loads = @ + 1]
  /\ last' = Event("PlayerPropsChange", "none")
  /\ UNCHANGED <<pg, net>>

PlayerUnmount ==
  /\ mh.mounted
  /\ mh' = Unmounted
  /\ last' = Event("PlayerUnmount", "none")
  /\ UNCHANGED <<pg, net, budget>>

NoPage == [started |-> FALSE]

NoNet == [open |-> FALSE]

InitPlayer ==
  /\ mh = Unmounted
  /\ pg = NoPage
  /\ net = NoNet
  /\ last = [ev |-> "Init", slot |-> "none", msg |-> NoMsg, threw |-> FALSE, audioEnded |-> FALSE]
  /\ budget = [loads |-> 0, begins |-> 0, msgs |-> 0, submits |-> 0]

NextPlayer ==
  \/ \E urls \in PlaylistChoices, audio \in AudioChoices : PlayerMount(urls, audio)
  \/ \E urls \in PlaylistChoices, audio \in AudioChoices : PlayerPropsChange(urls, audio)
  \/ PlayerUnmount
  \/ PlayerEvent

SpecPlayer == InitPlayer /\ [][NextPlayer]_vars

\* the player with a user who also seeks in the active clip
NextSeek ==
  \/ NextPlayer
  \/ \E t \in 0..MaxTime : UserAgentSeekVideo(t)

SpecSeek == InitPlayer /\ [][NextSeek]_vars

(***************************************************************************)
(* The session page, src/pages/simulation.jsx.  Texts are tokens; a        *)
(* displayed scenario is the sequence of its parts (joined by blank lines  *)
(* in the code).  "" is the empty string, and also stands for null and     *)
(* undefined where the code only tests truthiness.                         *)
(***************************************************************************)
DefaultMaxTurns == 3

\* line 39: the port used until the discovery of lines 44-61 answers
DefaultPort == 8000

NoGrade == <<>>

NoScenario == [present |-> FALSE, situation_description |-> "", user_role |-> "",
               user_prompt |-> "", grade |-> NoGrade, grade_explanation |-> ""]

NoTurn == [found |-> FALSE, turn_number |-> 0, video_urls |-> Undefined,
           audio_url |-> Null, scenario |-> NoScenario]

NoConclusion == [present |-> FALSE]

\* lines 8-41: the state after construction
InitialPage ==
  [isLoading |-> FALSE, error |-> "", turn |-> 0, maxTurns |-> DefaultMaxTurns,
   submissionCount |-> 0, userInput |-> "",
   currentVideoUrls |-> <<>>, urlsId |-> 0, currentAudioUrl |-> Null,
   scenarioGenerated |-> FALSE, videosGenerated |-> FALSE, audioGenerated |-> FALSE,
   showConclusion |-> FALSE, conclusionData |-> NoConclusion,
   history |-> <<>>, simulationId |-> "", simulationStarted |-> FALSE,
   backendPort |-> DefaultPort]

\* wsRef.current before any WebSocket was created (line 32)
NoSocket == [id |-> "", port |-> 0]

\* the network side of the page: the create request, the port discovery
\* request, the WebSockets that are open (each named by the session id and port
\* of its URL), wsRef.current, the submissionCount the onmessage closure
\* captured (line 64: the effect runs when simulationId or backendPort
\* changes), the respond requests in flight and the pending 1 s timers of
\* line 170; orphaned counts the requests still in flight of page instances
\* that are gone
InitialNet == [create |-> "idle", discovery |-> "pending", sockets |-> {}, wsRef |-> NoSocket,
               wsSubmissionCount |-> 0, respond |-> 0, timers |-> 0, orphaned |-> 0]

\* a WebSocket is open: its onmessage and onerror can be called
WsOpen(n) == n.sockets # {}

\* lines 203-207 with the close() left out
WebSocketCleanupKeepsOpen(n) == n

\* lines 203-207: the cleanup of the WebSocket effect closes wsRef.current
WebSocketCleanup(n) ==
  IF n.wsRef # NoSocket THEN [n EXCEPT !.sockets = @ \ {n.wsRef}] ELSE n

\* lines 64-75: the WebSocket effect opens a socket once a simulationId is known
WebSocketEffect(p, n) ==
  IF p.simulationId = "" THEN n
  ELSE LET socket == [id |-> p.simulationId, port |-> p.backendPort]
       IN [n EXCEPT !.sockets = @ \cup {socket}, !.wsRef = socket,
                    !.wsSubmissionCount = p.submissionCount]

\* line 208: the render after p became q re-runs the effect when simulationId or
\* backendPort changed; the cleanup exists when the last run got past line 65
RunWebSocketEffect(p, q, n) ==
  IF <<p.simulationId, p.backendPort>> = <<q.simulationId, q.backendPort>> THEN n
  ELSE WebSocketEffect(q, IF p.simulationId = "" THEN n ELSE WebSocketCleanup(n))

\* turns?.find(t => t.turn_number === k)
RECURSIVE FindTurn(_, _)
FindTurn(turns, k) ==
  IF turns = <<>> THEN NoTurn
  ELSE IF Head(turns).turn_number = k THEN Head(turns)
  ELSE FindTurn(Tail(turns), k)

\* a || b for numbers: 0 (and a missing field, read as 0) is falsy
OrNumber(a, b) == IF a = 0 THEN b ELSE a

\* lines 110-111: currentTurn?.x || message.simulation.x || default
ResolveVideoUrls(currentTurn, legacy) ==
  IF currentTurn.found /\ currentTurn.video_urls # Undefined THEN currentTurn.video_urls
  ELSE IF legacy # Undefined THEN legacy
  ELSE <<>>

ResolveAudioUrl(currentTurn, legacy) ==
  IF currentTurn.found /\ ~Falsy(currentTurn.audio_url) THEN currentTurn.audio_url
  ELSE IF ~Falsy(legacy) THEN legacy
  ELSE Null

\* line 124 testing the truthiness of the grade, which 0 fails
HasGradeTruthy(scenario) == scenario.grade # NoGrade /\ scenario.grade # <<0>>

\* line 124: grade !== undefined && grade !== null
HasGrade(scenario) == scenario.grade # NoGrade

\* lines 122-137 with the overlay following the last push
ShownAfterPushFollowsGrade(conclusion, shown) == conclusion

\* lines 122-137: setShowConclusion is only ever called with true, in the
\* branch of a graded scenario
ShownAfterPush(conclusion, shown) == conclusion \/ shown

\* a || b for strings: "" (and a missing field, read as "") is falsy
OrString(a, b) == IF a = "" THEN b ELSE a

\* lines 114-148: the text shown for the scenario; count is the submissionCount
\* the closure reads
ScenarioDisplay(currentTurn, legacyScenario, count) ==
  LET scenario == currentTurn.scenario
  IN IF currentTurn.found /\ scenario.present
     THEN <<scenario.situation_description>>
          \o (IF scenario.user_role # "" /\ count = 0 THEN <<scenario.user_role>> ELSE <<>>)
          \o (IF ~HasGrade(scenario) /\ scenario.user_prompt # ""
              THEN <<scenario.user_prompt>> ELSE <<>>)
     ELSE IF legacyScenario # "" THEN <<legacyScenario>>
     ELSE <<"Scenario loading...">>

\* lines 150-157: the last assistant entry of the history, if any
RECURSIVE LastAssistant(_)
LastAssistant(h) ==
  IF h = <<>> THEN [role |-> "none", content |-> <<>>]
  ELSE IF h[Len(h)].role = "assistant" THEN h[Len(h)]
  ELSE LastAssistant(SubSeq(h, 1, Len(h) - 1))

\* lines 150-157 without the comparison of line 153
AppendScenarioAlways(h, display) == Append(h, [role |-> "assistant", content |-> display])

\* lines 150-157: the updater given to setHistory
AppendScenario(h, display) ==
  LET lastAssistantMsg == LastAssistant(h)
  IN IF lastAssistantMsg.role = "none" \/ lastAssistantMsg.content # display
     THEN Append(h, [role |-> "assistant", content |-> display])
     ELSE h

\* line 86 without the step to the following turn
CheckTurnIgnoresComplete(m, currentTurnNumber) == currentTurnNumber

\* line 86: the number of the turn record a state frame is read from
CheckTurn(m, currentTurnNumber) ==
  IF m.is_complete THEN currentTurnNumber + 1 ELSE currentTurnNumber

\* lines 81-165: onmessage for simulation_state / simulation_updated; count is
\* the submissionCount captured by the closure
onStateMessage(p, m, count) ==
  LET currentTurnNumber == OrNumber(m.current_turn_number, 1)
      checkTurn == CheckTurn(m, currentTurnNumber)
      currentTurn == FindTurn(m.turns, checkTurn)
      videoUrls == ResolveVideoUrls(currentTurn, m.video_urls)
      audioUrl == ResolveAudioUrl(currentTurn, m.audio_url)
      scenario == currentTurn.scenario
      scenarioDisplay == ScenarioDisplay(currentTurn, m.scenario, count)
      conclusion == currentTurn.found /\ scenario.present /\ HasGrade(scenario)
  IN [p EXCEPT
        !.maxTurns = OrNumber(m.max_turns, DefaultMaxTurns),
        !.submissionCount = OrNumber(m.submission_count, 0),
        !.conclusionData =
           IF conclusion
           THEN [present |-> TRUE, scenario |-> scenarioDisplay, grade |-> scenario.grade,
                 gradeExplanation |-> OrString(scenario.grade_explanation, ""),
                 videoUrls |-> videoUrls, audioUrl |-> audioUrl]
           ELSE @,
        !.showConclusion = ShownAfterPush(conclusion, @),
        !.history = AppendScenario(@, scenarioDisplay),
        !.currentVideoUrls = videoUrls,
        !.urlsId = 1 - @,
        !.currentAudioUrl = audioUrl,
        !.turn = currentTurnNumber,
        !.videosGenerated = Len(videoUrls) > 0,
        !.audioGenerated = ~Falsy(audioUrl)]

\* lines 179-188 without the branch of line 183
onProgressUpdateSkipsVideos(p, step) ==
  IF step = "scenario_generated" THEN [p EXCEPT !.scenarioGenerated = TRUE]
  ELSE IF step = "audio_generated" THEN [p EXCEPT !.audioGenerated = TRUE]
  ELSE p

\* lines 179-188: onmessage for progress_update
onProgressUpdate(p, step) ==
  IF step = "scenario_generated" THEN [p EXCEPT !.scenarioGenerated = TRUE]
  ELSE IF step = "videos_generated" THEN [p EXCEPT !.videosGenerated = TRUE]
  ELSE IF step = "audio_generated" THEN [p EXCEPT !.audioGenerated = TRUE]
  ELSE p

\* lines 77-189: onmessage for a frame of any shape.  parsed is false for a
\* frame JSON.parse rejects (line 78, no try around it), hasSimulation false
\* for a frame without a simulation object (line 83 reads a property of
\* undefined); either way the handler ends with an exception nobody catches
\* before it has set any state.  The result is the page and whether it threw.
onmessage(p, f, count) ==
  IF ~f.parsed THEN [page |-> p, threw |-> TRUE]
  ELSE IF f.type \in {"simulation_state", "simulation_updated"}
  THEN IF ~f.hasSimulation THEN [page |-> p, threw |-> TRUE]
       ELSE [page |-> onStateMessage(p, f.simulation, count), threw |-> FALSE]
  ELSE IF f.type = "progress_update"
  THEN [page |-> onProgressUpdate(p, f.step), threw |-> FALSE]
  ELSE [page |-> p, threw |-> FALSE]

\* lines 191-195
onWsError(p) == [p EXCEPT !.error = "WebSocket connection error", !.isLoading = FALSE]

\* userInput.trim()
Trim(text) == IF text = " " THEN "" ELSE text

\* lines 856 and 868: the disabled attribute of the input and of the Send button
SubmitDisabled(p) ==
  p.isLoading \/ (p.submissionCount >= p.maxTurns /\ ~p.showConclusion) \/ p.simulationId = ""

\* the cap guard of line 228 written with > for >=
SubmitBlockedAbove(p) ==
  \/ Trim(p.userInput) = ""
  \/ p.isLoading
  \/ (p.submissionCount > p.maxTurns /\ ~p.showConclusion)

\* lines 219-231: the three early returns of handleSubmit
SubmitBlocked(p) ==
  \/ Trim(p.userInput) = ""
  \/ p.isLoading
  \/ (p.submissionCount >= p.maxTurns /\ ~p.showConclusion)

\* lines 211-300 with the submission counted by the page itself
handleSubmitCountsLocally(p) ==
  IF SubmitBlocked(p) THEN p
  ELSE LET q == [p EXCEPT !.isLoading = TRUE, !.scenarioGenerated = FALSE,
                          !.videosGenerated = FALSE, !.audioGenerated = FALSE,
                          !.history = Append(@, [role |-> "user", content |-> <<p.userInput>>]),
                          !.userInput = "", !.submissionCount = @ + 1]
       IN IF p.simulationId = ""
          THEN [q EXCEPT !.error = "Error advancing simulation", !.isLoading = FALSE]
          ELSE q

\* lines 211-300: handleSubmit up to the fetch; without a simulationId the try
\* block throws and the catch reports the error
handleSubmit(p) ==
  IF SubmitBlocked(p) THEN p
  ELSE LET q == [p EXCEPT !.isLoading = TRUE, !.scenarioGenerated = FALSE,
                          !.videosGenerated = FALSE, !.audioGenerated = FALSE,
                          !.history = Append(@, [role |-> "user", content |-> <<p.userInput>>]),
                          !.userInput = ""]
       IN IF p.simulationId = ""
          THEN [q EXCEPT !.error = "Error advancing simulation", !.isLoading = FALSE]
          ELSE q

\* lines 287-299 without the setIsLoading(false) of line 298
onRespondFailedKeepsLoading(p) == [p EXCEPT !.error = "Error advancing simulation"]

\* lines 287-299: the catch of handleSubmit
onRespondFailed(p) == [p EXCEPT !.error = "Error advancing simulation", !.isLoading = FALSE]

\* lines 329-333: initializeSimulation up to the fetch
initializeSimulation(p) ==
  [p EXCEPT !.isLoading = TRUE, !.error = "", !.scenarioGenerated = FALSE,
            !.videosGenerated = FALSE, !.audioGenerated = FALSE]

\* lines 375-388: the first history entry
FullScenario(currentTurn, legacyScenario) ==
  LET scenario == currentTurn.scenario
      full == IF currentTurn.found /\ scenario.present
              THEN <<scenario.situation_description>>
                   \o (IF scenario.user_role # "" THEN <<scenario.user_role>> ELSE <<>>)
                   \o (IF scenario.user_prompt # "" THEN <<scenario.user_prompt>> ELSE <<>>)
              ELSE IF legacyScenario # "" THEN <<legacyScenario>>
              ELSE <<"Scenario loading...">>
  IN IF full = <<"">> THEN <<"Welcome!">> ELSE full

\* lines 357-411: initializeSimulation after the fetch
onCreateResponse(p, d) ==
  IF d.type = "http_error"
  THEN [p EXCEPT !.error = "Error starting simulation", !.isLoading = FALSE]
  ELSE IF d.simulation_id = ""
  THEN [p EXCEPT !.error = "Error starting simulation", !.isLoading = FALSE]
  ELSE LET currentTurnNumber == OrNumber(d.current_turn_number, 0)
           currentTurn == FindTurn(d.turns, currentTurnNumber)
           videoUrls == ResolveVideoUrls(currentTurn, d.video_urls)
           audioUrl == ResolveAudioUrl(currentTurn, d.audio_url)
       IN [p EXCEPT
             !.simulationId = d.simulation_id,
             !.currentVideoUrls = videoUrls,
             !.urlsId = 1 - @,
             !.currentAudioUrl = audioUrl,
             !.turn = currentTurnNumber,
             !.history = <<[role |-> "assistant",
                            content |-> FullScenario(currentTurn, d.scenario)]>>,
             !.scenarioGenerated =
                (currentTurn.found /\ currentTurn.scenario.situation_description # "")
                \/ d.scenario # "",
             !.videosGenerated =
                (currentTurn.found /\ currentTurn.video_urls # Undefined
                   /\ Len(currentTurn.video_urls) > 0)
                \/ (d.video_urls # Undefined /\ Len(d.video_urls) > 0),
             !.audioGenerated =
                (currentTurn.found /\ ~Falsy(currentTurn.audio_url)) \/ ~Falsy(d.audio_url),
             !.isLoading = FALSE]

\* lines 583-587: the restart button reloads the page
restartOnClick == InitialPage

\* lines 719 and 765-788: MediaHandler is rendered once the simulation has
\* started and while isLoading is false, with the page's URLs as props
PlayerShown(p) == p.simulationStarted /\ ~p.isLoading

RenderPlayer(p, w) ==
  IF ~PlayerShown(p) THEN Unmounted
  ELSE IF ~w.mounted
  THEN Settle(InitialComponent(p.currentVideoUrls, p.currentAudioUrl, p.urlsId))
  ELSE Settle([w EXCEPT !.video_urls = p.currentVideoUrls,
                        !.audio_url = p.currentAudioUrl,
                        !.propsId = p.urlsId])

(***************************************************************************)
(* Bounds and inputs of the page: what the server may send.                *)
(***************************************************************************)
MaxBegins == 1

MaxMessages == 2

MaxSubmits == 2

Scenario(description, role, prompt, grade) ==
  [present |-> TRUE, situation_description |-> description, user_role |-> role,
   user_prompt |-> prompt, grade |-> grade, grade_explanation |-> ""]

\* a conclusion scenario: a grade and, possibly, its explanation
Conclusion(description, grade, explanation) ==
  [Scenario(description, "", "", grade) EXCEPT !.grade_explanation = explanation]

Turn(n, videos, audio, scenario) ==
  [found |-> TRUE, turn_number |-> n, video_urls |-> videos, audio_url |-> audio,
   scenario |-> scenario]

Simulation(type, id, n, complete, max, count, turns) ==
  [type |-> type, simulation_id |-> id, current_turn_number |-> n, is_complete |-> complete,
   max_turns |-> max, submission_count |-> count, turns |-> turns,
   video_urls |-> Undefined, audio_url |-> Null, scenario |-> ""]

Turn1 == Turn(1, <<V1, V2>>, A1, Scenario("S1", "R", "P1", NoGrade))

Turn2 == Turn(2, <<V3>>, A2, Scenario("S2", "R", "P2", NoGrade))

Turn3 == Turn(3, <<>>, A1, Conclusion("S3", <<80>>, "E3"))

StateMessages ==
  {Simulation("simulation_state", "sim1", 1, FALSE, 2, 0, <<Turn1>>),
   Simulation("simulation_state", "sim1", 2, FALSE, 2, 1, <<Turn1, Turn2>>),
   Simulation("simulation_updated", "sim1", 2, FALSE, 2, 2, <<Turn1, Turn2>>),
   Simulation("simulation_state", "sim1", 2, TRUE, 2, 2, <<Turn1, Turn2, Turn3>>),
   Simulation("simulation_state", "sim1", 0, FALSE, 0, 0, <<>>)}

CreateResponses ==
  {Simulation("created", "sim1", 1, FALSE, 2, 0, <<Turn1>>),
   Simulation("created", "", 1, FALSE, 2, 0, <<Turn1>>),
   [type |-> "http_error"]}

ProgressSteps == {"scenario_generated", "videos_generated", "audio_generated", "clips_generated"}

UserInputs == {"", " ", "go"}

\* frames of an unexpected shape: text that is not JSON, an unknown type, a
\* state frame without its simulation object, a progress frame without a step
Frame(parsed, type, hasSimulation) ==
  [parsed |-> parsed, type |-> type, hasSimulation |-> hasSimulation,
   simulation |-> NoMsg, step |-> ""]

MalformedFrames ==
  {Frame(FALSE, "", FALSE),
   Frame(TRUE, "heartbeat", FALSE),
   Frame(TRUE, "simulation_state", FALSE),
   Frame(TRUE, "simulation_updated", FALSE),
   Frame(TRUE, "progress_update", FALSE)}

\* what the port discovery may answer: the default port or another one
OtherPort == 8001

DiscoveredPorts == {DefaultPort, OtherPort}

(***************************************************************************)
(* Actions of the page.  Each is one handler with the render it causes,    *)
(* the player included: it is mounted, given new props or unmounted.       *)
(***************************************************************************)
PageStepThrowing(name, m, p, n, threw) ==
  /\ pg' = p
  /\ net' = n
  /\ mh' = RenderPlayer(p, mh)
  /\ last' = [ev |-> name, slot |-> "none", msg |-> m, threw |-> threw,
              audioEnded |-> last.audioEnded /\ mh.mounted /\ PlayerShown(p)
                             /\ mh.propsId = p.urlsId]

PageStep(name, m, p, n) == PageStepThrowing(name, m, p, n, FALSE)

\* lines 645 and 690-694 with the Begin button rendered at all times
BeginAvailableWhenIdle(p) == ~p.isLoading

\* lines 645 and 690-694: the Begin button is rendered until the simulation was
\* started, and is enabled while nothing is loading
BeginAvailable(p) == ~p.simulationStarted /\ ~p.isLoading

\* lines 690-694: the Begin button
BeginClick ==
  /\ BeginAvailable(pg) /\ budget.begins < MaxBegins
  /\ PageStep("BeginClick", NoMsg,
              initializeSimulation([pg EXCEPT !.simulationStarted = TRUE]),
              [net EXCEPT !.create = "pending"])
  /\ budget' = [budget EXCEPT !.begins = @ + 1]

\* the create request completes; a simulationId makes the WebSocket effect run
CreateResponse(d) ==
  /\ net.create = "pending"
  /\ LET p == onCreateResponse(pg, d)
     IN PageStep("CreateResponse", d, p,
                 RunWebSocketEffect(pg, p, [net EXCEPT !.create = "done"]))
  /\ UNCHANGED budget

\* a simulation_state or simulation_updated frame arrives
ReceiveState(m) ==
  /\ WsOpen(net) /\ budget.msgs < MaxMessages
  /\ PageStep("ReceiveState", m, onStateMessage(pg, m, net.wsSubmissionCount),
              [net EXCEPT !.timers = @ + 1])
  /\ budget' = [budget EXCEPT !.msgs = @ + 1]

\* a progress_update frame arrives
ReceiveProgress(step) ==
  /\ WsOpen(net)
  /\ PageStep("ReceiveProgress", [type |-> "progress_update", step |-> step],
              onProgressUpdate(pg, step), net)
  /\ UNCHANGED budget

\* a frame of an unexpected shape arrives
ReceiveMalformed(f) ==
  /\ WsOpen(net)
  /\ LET r == onmessage(pg, f, net.wsSubmissionCount)
     IN PageStepThrowing("ReceiveMalformed", f, r.page, net, r.threw)
  /\ UNCHANGED budget

\* lines 170-177: a 1 s timer set by onmessage fires
LoadingTimer ==
  /\ net.timers > 0
  /\ PageStep("LoadingTimer", NoMsg, [pg EXCEPT !.isLoading = FALSE],
              [net EXCEPT !.timers = @ - 1])
  /\ UNCHANGED budget

\* the WebSocket fails: 'error', then 'close'
WsError ==
  /\ WsOpen(net)
  /\ \E socket \in net.sockets :
       PageStep("WsError", NoMsg, onWsError(pg), [net EXCEPT !.sockets = @ \ {socket}])
  /\ UNCHANGED budget

\* line 854: the user edits the input, which is possible while it is enabled
TypeInput(text) ==
  /\ pg.simulationStarted /\ ~SubmitDisabled(pg) /\ text # pg.userInput
  /\ PageStep("TypeInput", NoMsg, [pg EXCEPT !.userInput = text], net)
  /\ UNCHANGED budget

\* line 844: a submit event reaches handleSubmit, which checks for itself whether
\* the submission may proceed
FormSubmit ==
  /\ pg.simulationStarted /\ budget.submits < MaxSubmits
  /\ LET p == handleSubmit(pg)
         sends == ~SubmitBlocked(pg) /\ pg.simulationId # ""
     IN /\ PageStep("FormSubmit", NoMsg, p,
                    [net EXCEPT !.respond = IF sends THEN @ + 1 ELSE @])
        /\ budget' = [budget EXCEPT !.submits = IF SubmitBlocked(pg) THEN @ ELSE @ + 1]

\* lines 272-284 with a setIsLoading(false) after the response
onRespondOkClearsLoading(p) == [p EXCEPT !.isLoading = FALSE]

\* lines 272-284: handleSubmit after a 2xx response sets no state, the body
\* is not read (line 284)
onRespondOk(p) == p

\* the respond request succeeds
RespondOk ==
  /\ net.respond > 0
  /\ PageStep("RespondOk", NoMsg, onRespondOk(pg), [net EXCEPT !.respond = @ - 1])
  /\ UNCHANGED budget

\* the respond request fails, or its 5 minute timeout aborts it
RespondFailed ==
  /\ net.respond > 0
  /\ PageStep("RespondFailed", NoMsg, onRespondFailed(pg), [net EXCEPT !.respond = @ - 1])
  /\ UNCHANGED budget

\* lines 583-587: Restart on the conclusion overlay; the reload drops everything
RestartClick ==
  /\ pg.showConclusion /\ pg.conclusionData.present
  /\ pg' = restartOnClick
  /\ net' = InitialNet
  /\ mh' = Unmounted
  /\ last' = [ev |-> "RestartClick", slot |-> "none", msg |-> NoMsg, threw |-> FALSE,
              audioEnded |-> FALSE]
  /\ UNCHANGED budget

PageEvent ==
  \/ BeginClick
  \/ \E d \in CreateResponses : CreateResponse(d)
  \/ \E m \in StateMessages : ReceiveState(m)
  \/ \E step \in ProgressSteps : ReceiveProgress(step)
  \/ LoadingTimer
  \/ WsError
  \/ \E text \in UserInputs : TypeInput(text)
  \/ FormSubmit
  \/ RespondOk
  \/ RespondFailed
  \/ RestartClick

\* lines 44-61: the answer to the port discovery arrives; a failed discovery
\* keeps the default
onPortDiscovered(p, port) == [p EXCEPT !.backendPort = port]

PortDiscovered(port) ==
  /\ net.discovery = "pending"
  /\ LET p == onPortDiscovered(pg, port)
     IN PageStep("PortDiscovered", NoMsg, p,
                 RunWebSocketEffect(pg, p, [net EXCEPT !.discovery = "done"]))
  /\ UNCHANGED budget

PortDiscoveryFailed ==
  /\ net.discovery = "pending"
  /\ PageStep("PortDiscoveryFailed", NoMsg, pg, [net EXCEPT !.discovery = "done"])
  /\ UNCHANGED budget

\* lines 254-256 and 339-340: the AbortController of a request is local to the
\* handler that made it and is used by its 5 minute timer only, so the
\* requests in flight when the component is discarded stay in flight
OrphanedRequests(n) == n.orphaned + n.respond + (IF n.create = "pending" THEN 1 ELSE 0)

\* the page component is discarded (the user navigates away): the cleanups of
\* its effects run, its pending callbacks have nothing left to update, and a
\* later visit starts from a new instance
PageDiscard ==
  /\ pg' = InitialPage
  /\ net' = [InitialNet EXCEPT
               !.sockets = IF pg.simulationId = "" THEN net.sockets
                           ELSE WebSocketCleanup(net).sockets,
               !.orphaned = OrphanedRequests(net)]
  /\ mh' = Unmounted
  /\ last' = [ev |-> "PageDiscard", slot |-> "none", msg |-> NoMsg, threw |-> FALSE,
              audioEnded |-> FALSE]
  /\ UNCHANGED budget

InitPage ==
  /\ mh = Unmounted
  /\ pg = InitialPage
  /\ net = InitialNet
  /\ last = [ev |-> "Init", slot |-> "none", msg |-> NoMsg, threw |-> FALSE, audioEnded |-> FALSE]
  /\ budget = [loads |-> 0, begins |-> 0, msgs |-> 0, submits |-> 0]

\* the page with its player mounted but no media event
SpecPage == InitPage /\ [][PageEvent]_vars

\* the page showing what the server pushes, and the media events of its player:
\* the session is begun, frames arrive, the player loads and plays
NextApp ==
  \/ BeginClick
  \/ \E d \in CreateResponses : CreateResponse(d)
  \/ \E m \in StateMessages : ReceiveState(m)
  \/ LoadingTimer
  \/ PlayerEvent

SpecApp == InitPage /\ [][NextApp]_vars

\* the page and its push channel: the session is begun, the port discovery
\* answers at any time, frames arrive, the channel fails, the page is restarted
\* or discarded
NextChannel ==
  \/ BeginClick
  \/ \E d \in CreateResponses : CreateResponse(d)
  \/ \E port \in DiscoveredPorts : PortDiscovered(port)
  \/ PortDiscoveryFailed
  \/ \E m \in StateMessages : ReceiveState(m)
  \/ \E step \in ProgressSteps : ReceiveProgress(step)
  \/ \E f \in MalformedFrames : ReceiveMalformed(f)
  \/ LoadingTimer
  \/ WsError
  \/ RestartClick
  \/ PageDiscard

SpecChannel == InitPage /\ [][NextChannel]_vars

(***************************************************************************)
(* Properties of the player, checked under SpecPlayer.                     *)
(***************************************************************************)
ActiveElement(w) == w[w.activeVideoRef]

\* C1: exactly one of the two slots is the active one, and at most one video
\* slot is playing at any instant.
C1_OneSlotPlaying ==
  mh.mounted =>
    /\ mh.activeVideoRef \in Slots
    /\ ~(IsPlayingElement(mh.primary) /\ IsPlayingElement(mh.buffer))

\* C2: with the three-clip playlist and its audio loaded without error, once the
\* sequence has advanced past the first clip and no load or re-check is pending,
\* the clip in the active slot is playing while the audio plays: after a clip
\* has ended the next one is played.
C2_NextClipPlays ==
  ( /\ mh.mounted
    /\ Len(mh.validVideoUrls) = 3
    /\ mh.currentVideoIndex > 0
    /\ ~mh.error
    /\ mh.primary.ls = "canplay" /\ mh.buffer.ls = "canplay"
    /\ ~mh.recheckPending
    /\ IsPlayingElement(mh.audio) )
  => IsPlayingElement(ActiveElement(mh))

\* C3: the step that handles the audio's 'ended' event leaves both video slots
\* paused and isPlaying false, and as long as no new playlist is loaded no later
\* step changes the clip index or the active slot.
C3_AudioEndStopsSequence ==
  [][ /\ (last'.ev = "AudioEnded" /\ last'.audioEnded /\ mh'.mounted)
         => (mh'.primary.paused /\ mh'.buffer.paused /\ ~mh'.isPlaying)
      /\ (last.audioEnded /\ last'.audioEnded /\ mh'.mounted)
         => ( /\ mh'.currentVideoIndex = mh.currentVideoIndex
              /\ mh'.activeVideoRef = mh.activeVideoRef ) ]_vars

C9_AudioOnlyPlays ==
  ( /\ mh.mounted
    /\ Len(mh.validVideoUrls) = 0
    /\ mh.audio.ex /\ mh.audio.ls = "canplay"
    /\ ~last.audioEnded )
  => (IsPlayingElement(mh.audio) \/ PlayButtonVisible(mh))

\* C10: after a playlist load (the first or a later one, the audio not having
\* ended since) with zero valid clips currentVideoReady and nextVideoReady are
\* true, and with no audio URL audioElementReady is true.
C10_AbsentTriviallyReady ==
  (mh.mounted /\ ~last.audioEnded) =>
    /\ (Len(mh.validVideoUrls) = 0 => (mh.currentVideoReady /\ mh.nextVideoReady))
    /\ (Falsy(mh.audio_url) => mh.audioElementReady)

(***************************************************************************)
(* Properties of the page, checked under SpecPage and SpecApp.             *)
(***************************************************************************)
\* what the player shows and does, without the identity of its props
PlayerView(w) ==
  IF ~w.mounted THEN Unmounted
  ELSE [state |-> [f \in StateFields |-> w[f]], validVideoUrls |-> w.validVideoUrls,
        primary |-> w.primary, buffer |-> w.buffer, audio |-> w.audio]

\* the session state the page displays
SessionView(p) ==
  [turn |-> p.turn, submissionCount |-> p.submissionCount, maxTurns |-> p.maxTurns,
   currentVideoUrls |-> p.currentVideoUrls, currentAudioUrl |-> p.currentAudioUrl,
   history |-> p.history, showConclusion |-> p.showConclusion,
   conclusionData |-> p.conclusionData, isLoading |-> p.isLoading]

\* C4: a simulation_state message delivered right after the same message leaves
\* the displayed session state, the player state derived from the media URLs
\* and the history as the first delivery left them.
C4_DuplicateStateIdempotent ==
  [][ (last.ev = "ReceiveState" /\ last'.ev = "ReceiveState" /\ last'.msg = last.msg)
      => (SessionView(pg') = SessionView(pg) /\ PlayerView(mh') = PlayerView(mh)) ]_vars

\* C5: a state message that carries a current_turn_number which is at most the
\* displayed turn changes nothing of the displayed session state.
C5_StaleStateNoOp ==
  [][ (last'.ev = "ReceiveState" /\ last'.msg.current_turn_number \in 1..pg.turn)
      => SessionView(pg') = SessionView(pg) ]_vars

\* C6: while a conclusion is shown the input and the send button are disabled,
\* and no step appends a user entry to the history or issues a response request.
C6_NoSubmitAfterConclusion ==
  [][ pg.showConclusion
      => ( /\ SubmitDisabled(pg)
           /\ (last'.ev = "FormSubmit"
                 => (pg'.history = pg.history /\ net'.respond = net.respond)) ) ]_vars

\* C7: in a state where submissionCount >= maxTurns and no conclusion is shown,
\* the input and the send button are disabled, and handleSubmit returns without
\* appending to the history and without issuing a request.
C7_SubmitCapGuard ==
  /\ [](( pg.simulationStarted /\ pg.submissionCount >= pg.maxTurns /\ ~pg.showConclusion)
          => SubmitDisabled(pg))
  /\ [][ ( /\ pg.simulationStarted /\ pg.submissionCount >= pg.maxTurns /\ ~pg.showConclusion
           /\ last'.ev = "FormSubmit" )
         => (pg' = pg /\ net' = net) ]_vars

\* C7 witness: handleSubmit has just been called with a non-empty input while not
\* loading, at the cap and with no conclusion shown
C7_BlockedAtCap ==
  /\ last.ev = "FormSubmit"
  /\ pg.submissionCount >= pg.maxTurns /\ ~pg.showConclusion
  /\ Trim(pg.userInput) # "" /\ ~pg.isLoading

(***************************************************************************)
(* Failure handling and sequencing of the player, checked under           *)
(* SpecPlayer.                                                             *)
(***************************************************************************)
\* the step hands a load error of the active clip to handleVideoError
ActiveClipErrorStep ==
  /\ last'.ev = "VideoError" /\ mh.mounted
  /\ last'.slot = mh.activeVideoRef /\ mh.lsnActive.on = last'.slot

\* the step carries the intent to advance after a failed active clip: the error
\* itself, or a later re-check while the clip is still the failed active one
AdvanceAfterErrorStep ==
  \/ ActiveClipErrorStep
  \/ ( /\ last'.ev = "RecheckTimer" /\ mh.error
       /\ mh[mh.activeVideoRef].ls = "error" )

\* C11: a load error on the active clip leaves currentVideoReady false, and with
\* a playlist of at least two clips whose standby clip is ready the step that
\* handles the error, or the re-check that follows it, makes the next clip the
\* active one.
C11_ErrorAdvances ==
  [][ /\ ActiveClipErrorStep => (mh'.mounted /\ ~mh'.currentVideoReady)
      /\ ( /\ AdvanceAfterErrorStep
           /\ Len(mh.validVideoUrls) >= 2 /\ mh.nextVideoReady
           /\ mh[OtherSlot(mh.activeVideoRef)].ls = "canplay" )
         => ( /\ mh'.activeVideoRef = OtherSlot(mh.activeVideoRef)
              /\ mh'.currentVideoIndex = NextIndex(mh.currentVideoIndex, Len(mh.validVideoUrls)) ) ]_vars

\* C12: once the standby clip has failed to load, a re-check that follows the
\* 'ended' event of the active clip advances the clip index, stops re-checking
\* or puts the player in its error state: it never re-arms itself with nothing
\* changed.
C12_NoRecheckLoop ==
  [][ ( /\ last'.ev = "RecheckTimer"
        /\ mh[OtherSlot(mh.activeVideoRef)].ls = "error"
        /\ mh[mh.activeVideoRef].ls = "canplay" )
      => ( \/ mh'.currentVideoIndex # mh.currentVideoIndex
           \/ ~mh'.recheckPending
           \/ mh'.error ) ]_vars

\* C13: the step that handles a load error of the audio sets audioElementReady,
\* changes neither the clip index, the active slot, the error flag nor the
\* re-check, and with the active clip ready makes allMediaReady, the gate of
\* the start, true; a clip that becomes ready after the audio has failed does
\* the same.
C13_AudioErrorDoesNotBlock ==
  [][ /\ last'.ev = "AudioError"
         => ( /\ mh'.mounted /\ mh'.audioElementReady
              /\ mh'.currentVideoIndex = mh.currentVideoIndex
              /\ mh'.activeVideoRef = mh.activeVideoRef
              /\ mh'.error = mh.error
              /\ mh'.recheckPending = mh.recheckPending
              /\ (mh.currentVideoReady /\ Len(mh.validVideoUrls) > 0 /\ ~mh.error)
                 => mh'.allMediaReady )
      /\ ( /\ last'.ev = "VideoCanPlay" /\ mh.mounted
           /\ last'.slot = mh.activeVideoRef /\ mh.lsnActive.on = last'.slot
           /\ mh.audio.ex /\ mh.audio.ls = "error" /\ mh.audioElementReady )
         => mh'.allMediaReady ]_vars

\* C13 witness: the audio has just failed to load with the active clip ready,
\* and the player offers the start
C13_StartOfferedAfterAudioError ==
  /\ last.ev = "AudioError" /\ mh.mounted
  /\ mh.audio.ex /\ mh.audio.ls = "error"
  /\ mh.currentVideoReady /\ mh.allMediaReady /\ PlayButtonVisible(mh)

\* the step loads no new playlist and does not discard the player
WithinPlaylistStep ==
  /\ mh.mounted /\ mh'.mounted
  /\ last'.ev \notin {"PlayerMount", "PlayerPropsChange"}

\* C14: while a playlist is loaded the active slot changes only in the step
\* that handles the 'ended' event or the load error of the clip in the active
\* slot, and that step toggles the slot once and advances the clip index by one
\* position; and whenever another slot becomes the active one, the slot that was
\* active is not playing.
C14_SwapsSequential ==
  [][ /\ (WithinPlaylistStep /\ mh'.activeVideoRef # mh.activeVideoRef)
         => ( /\ last'.ev \in {"VideoEnded", "VideoError"}
              /\ last'.slot = mh.activeVideoRef
              /\ mh'.activeVideoRef = OtherSlot(mh.activeVideoRef)
              /\ mh'.currentVideoIndex
                   = NextIndex(mh.currentVideoIndex, Len(mh.validVideoUrls)) )
      /\ (mh.mounted /\ mh'.mounted /\ mh'.activeVideoRef # mh.activeVideoRef)
         => ~IsPlayingElement(mh'[mh.activeVideoRef]) ]_vars

MediaElements == {"primary", "buffer", "audio"}

\* C15: after the step in which the mounted player is given a new playlist
\* (new video_urls or audio_url) no video slot and no audio is playing: what
\* was playing has been stopped, and what the new playlist loads has not
\* started.
C15_TeardownOnPlaylistChange ==
  [][ (last'.ev = "PlayerPropsChange" /\ mh'.mounted)
      => \A e \in MediaElements : ~IsPlayingElement(mh'[e]) ]_vars

\* C16: right after a seek on the clip of the playlist that the active slot
\* holds, with the audio loaded, the audio is at the position of that clip.
C16_SeekResyncsAudio ==
  [][ ( /\ last'.ev = "UserAgentSeekVideo" /\ mh'.mounted
        /\ ActiveElement(mh').src = mh'.activeVideoUrl
        /\ mh'.audio.ex /\ mh'.audio.ls = "canplay" )
      => mh'.audio.t = ActiveElement(mh').t ]_vars

(***************************************************************************)
(* Properties of the push channel, checked under SpecChannel.              *)
(***************************************************************************)
\* C17: no WebSocket is open while the page has no simulationId (before the
\* session is created and after the page was restarted or discarded), at most
\* one is open at any time, and a step that makes another socket the current
\* one leaves the previous one closed.
C17_ChannelLifecycle ==
  /\ []( /\ (pg.simulationId = "" => net.sockets = {})
         /\ Cardinality(net.sockets) <= 1 )
  /\ [][ net'.wsRef # net.wsRef => net.wsRef \notin net'.sockets ]_vars

\* C17 witness: the port discovery has just answered with another port while
\* the channel of the session was open; the channel is open on the new port
C17_ChannelReopened ==
  /\ last.ev = "PortDiscovered"
  /\ pg.simulationId # "" /\ pg.backendPort = OtherPort
  /\ net.sockets = {[id |-> pg.simulationId, port |-> OtherPort]}

\* C18: a frame of an unexpected shape (not parseable, of an unknown type, or a
\* state frame without a simulation object) is handled without an uncaught
\* exception and leaves the page and its player as they were.
C18_MalformedFrameDropped ==
  [][ last'.ev = "ReceiveMalformed"
      => (~last'.threw /\ pg' = pg /\ mh' = mh) ]_vars

(***************************************************************************)
(* Properties of the page's progress and failure handling, checked under   *)
(* SpecPage.                                                               *)
(***************************************************************************)
\* the page with its three checklist flags set aside
WithoutChecklist(p) ==
  [p EXCEPT !.scenarioGenerated = FALSE, !.videosGenerated = FALSE, !.audioGenerated = FALSE]

\* a progress_update frame changes nothing but the checklist flags
ProgressOnlyChecklist ==
  last'.ev = "ReceiveProgress"
  => (WithoutChecklist(pg') = WithoutChecklist(pg) /\ mh' = mh /\ net' = net)

\* a progress_update frame whose step is named step sets the flag named flag
ProgressMarks(step, flag) ==
  (last'.ev = "ReceiveProgress" /\ last'.msg.step = step) => pg'[flag]

\* C19 as stated: a progress_update frame, whatever its step, changes only the
\* checklist flags, and the steps scenario_generated, clips_generated and
\* audio_generated each mark their own item.
C19_ProgressStepsAsDocumented ==
  [][ /\ ProgressOnlyChecklist
      /\ ProgressMarks("scenario_generated", "scenarioGenerated")
      /\ ProgressMarks("clips_generated", "videosGenerated")
      /\ ProgressMarks("audio_generated", "audioGenerated") ]_vars

\* C19 amended: a progress_update frame, whatever its step, changes only the
\* checklist flags, and the steps scenario_generated, videos_generated and
\* audio_generated each mark their own item.
C19_ProgressOnlyChecklist ==
  [][ /\ ProgressOnlyChecklist
      /\ ProgressMarks("scenario_generated", "scenarioGenerated")
      /\ ProgressMarks("videos_generated", "videosGenerated")
      /\ ProgressMarks("audio_generated", "audioGenerated") ]_vars

\* C19 witness: while a submission is loading, a videos_generated frame has just
\* marked the video item, the audio item still being open
C19_VideoItemMarked ==
  /\ last.ev = "ReceiveProgress" /\ last.msg.step = "videos_generated"
  /\ pg.isLoading /\ pg.submissionCount > 0
  /\ pg.videosGenerated /\ ~pg.audioGenerated

\* the step handles the failure of a request or of the channel
FailureStep ==
  \/ last'.ev = "RespondFailed"
  \/ last'.ev = "WsError"
  \/ (last'.ev = "CreateResponse" /\ last'.msg.type = "http_error")

\* C20: a step that handles a failed create or submit request or a channel
\* error leaves an error message set and isLoading false, and only the Begin
\* button and a form submission issue a request: no other step starts a create
\* request or adds a respond request.
C20_FailureReportedNoRetry ==
  [][ /\ FailureStep => (pg'.error # "" /\ ~pg'.isLoading)
      /\ last'.ev \notin {"BeginClick", "FormSubmit"}
         => ( /\ net'.respond <= net.respond
              /\ (net'.create = "pending" => net.create = "pending") ) ]_vars

\* C20 witness: the only respond request in flight has just failed while the
\* page was loading; the error is set, loading is over and nothing is in flight
C20_SubmitFailureReported ==
  /\ last.ev = "RespondFailed"
  /\ pg.error # "" /\ ~pg.isLoading
  /\ net.respond = 0 /\ net.create = "done"

(***************************************************************************)
(* Properties of the session: starting it, submitting, and what a push     *)
(* changes.                                                                *)
(***************************************************************************)
\* the create request has ended without a session: a status that is not 2xx,
\* a network error, the abort of the timeout, or an answer without simulation_id
CreateFailed == net.create = "done" /\ pg.simulationId = ""

\* C21: after a create request that failed before a session existed, no session
\* id is set, an error message is set, and the Begin button can be used again.
C21_CreateFailureBackToIdle ==
  CreateFailed => (pg.simulationId = "" /\ pg.error # "" /\ BeginAvailable(pg))

\* C22: at most one submission is pending: as long as no request and no channel
\* has failed (no error was reported), a step issues a respond request only when
\* no earlier respond request is still waiting for its HTTP response, whatever
\* pushes, loading timers and submits came before.
C22_OneSubmissionPending ==
  [][(net'.respond > net.respond /\ pg.error = "") => net.respond = 0]_vars

\* what a state push brings: turn, counts, media URLs and conclusion
PushedView(p) ==
  [turn |-> p.turn, submissionCount |-> p.submissionCount, maxTurns |-> p.maxTurns,
   currentVideoUrls |-> p.currentVideoUrls, currentAudioUrl |-> p.currentAudioUrl,
   showConclusion |-> p.showConclusion, conclusionData |-> p.conclusionData]

\* C23: the 2xx answer to a submit request changes nothing of the page: turn,
\* submissionCount, maxTurns, media URLs, history and conclusion are as before,
\* the loading flag is left as it was (set, when it was set) and the player
\* gets no new props; within a session turn, counts, media URLs and conclusion
\* change only in the step that handles a state push.
C23_AckChangesNothing ==
  [][ /\ last'.ev = "RespondOk" => (SessionView(pg') = SessionView(pg) /\ mh' = mh)
      /\ (PushedView(pg') # PushedView(pg))
         => last'.ev \in {"ReceiveState", "CreateResponse", "RestartClick"} ]_vars

\* C23 witness: the only respond request was answered with 2xx while the page
\* was loading after a submission; it is still loading.
C23_AckWhileLoading ==
  /\ last.ev = "RespondOk"
  /\ pg.isLoading /\ net.respond = 0
  /\ Len(pg.history) > 1 /\ pg.history[Len(pg.history)].role = "user"

\* C24: within a session no step makes submissionCount smaller than it was,
\* whatever pushes arrive, duplicated or out of order.
C24_SubmissionCountMonotonic ==
  [][(pg.simulationId # "" /\ pg'.simulationId = pg.simulationId)
     => pg'.submissionCount >= pg.submissionCount]_vars

\* the turn records of a state frame with the given number
TurnRecords(m, k) == {m.turns[i] : i \in {j \in DOMAIN m.turns : m.turns[j].turn_number = k}}

HistoryAppendStep ==
  \/ pg'.history = pg.history
  \/ /\ Len(pg'.history) = Len(pg.history) + 1
     /\ SubSeq(pg'.history, 1, Len(pg.history)) = pg.history

\* C26: every step of the page other than the reload leaves the history
\* unchanged or appends exactly one entry to it, and a state push that appends
\* an entry appends an assistant entry whose text differs from the content of
\* the most recent assistant entry.
C26_HistoryAppendOnly ==
  [][ /\ last'.ev # "RestartClick" => HistoryAppendStep
      /\ (last'.ev = "ReceiveState" /\ pg'.history # pg.history)
         => LET new == pg'.history[Len(pg'.history)]
            IN new.role = "assistant" /\ new.content # LastAssistant(pg.history).content
    ]_vars

\* C26 witness: two pushes were handled after the session was created and one
\* submission made; the push repeating the first scenario added nothing, the
\* push with the next scenario added one entry after the user's.
C26_ReplayedScenarioNotAdded ==
  /\ last.ev = "ReceiveState" /\ budget.msgs = 2
  /\ Len(pg.history) = 3
  /\ pg.history[1].role = "assistant" /\ pg.history[2].role = "user"
  /\ pg.history[3].role = "assistant" /\ pg.history[3].content # pg.history[1].content

\* the text of a history entry contains the given part
Contains(content, part) == \E i \in DOMAIN content : content[i] = part

\* C27: a state push whose submission_count is above 0 and which appends a
\* history entry appends one that does not contain the user_role of a turn
\* record of the frame.
C27_RoleOnlyOnFirstTurn ==
  [][(last'.ev = "ReceiveState" /\ last'.msg.submission_count > 0
        /\ pg'.history # pg.history)
     => LET m == last'.msg
        IN \A i \in DOMAIN m.turns :
             m.turns[i].scenario.user_role # ""
             => ~Contains(pg'.history[Len(pg'.history)].content,
                          m.turns[i].scenario.user_role) ]_vars

(***************************************************************************)
(* Properties of the player's start and of its readiness flags.            *)
(***************************************************************************)
\* C28: a tap on the play button while the active clip and the audio are ready
\* starts both, hides the button and sets isPlaying.
C28_TapStartsPlayback ==
  [][(last'.ev = "PlayButtonClick" /\ mh.allMediaReady
        /\ ActiveElement(mh).ls = "canplay"
        /\ (mh.audio.ex => mh.audio.ls = "canplay"))
     => ( /\ IsPlayingElement(ActiveElement(mh'))
          /\ (mh'.audio.ex => IsPlayingElement(mh'.audio))
          /\ ~PlayButtonVisible(mh')
          /\ mh'.isPlaying )]_vars

\* lines 302-306 and 316-318: the step is an audio 'play' event whose handler
\* starts the active clip, and the start is rejected: play() on an element
\* whose load failed returns a rejected promise.  No user gesture was captured
\* (hasUserInteracted is set only at line 218).
RejectedStartStep ==
  /\ last'.ev = "UserAgentPlayAudio" /\ mh.lsnSync.on
  /\ mh.lsnSync.avr = mh.activeVideoRef
  /\ ~mh.hasUserInteracted
  /\ ActiveElement(mh).paused /\ ActiveElement(mh).ls = "error"
  /\ PlayElement(ActiveElement(mh)) = ActiveElement(mh)

\* C29: when a start of the active clip is rejected before a user gesture was
\* captured, the play button is shown and nothing else is done: the start is not
\* retried, the clip index is not advanced and the error state is not entered.
C29_RejectedStartOffersTap ==
  [][RejectedStartStep
     => ( /\ PlayButtonVisible(mh')
          /\ ~IsPlayingElement(ActiveElement(mh'))
          /\ mh'.currentVideoIndex = mh.currentVideoIndex
          /\ mh'.activeVideoRef = mh.activeVideoRef
          /\ mh'.error = mh.error
          /\ mh'.recheckPending = mh.recheckPending )]_vars

\* lines 124-125: the clip the standby slot is to hold
StandbyClip(w) ==
  ClipAt(w.validVideoUrls, NextIndex(w.currentVideoIndex, Len(w.validVideoUrls)))

\* the step is an event of the mounted player other than new props
WithinPlaylistEvent ==
  mh.mounted /\ mh'.mounted /\ last'.ev \notin {"PlayerMount", "PlayerPropsChange"}

\* C30: right after new props each readiness flag is false, or true for a
\* resource that is absent (no clip, no standby clip, no audio, or no element
\* for it); from then on a flag of a present resource becomes true only by a
\* load event of the element that holds that resource of the current playlist,
\* or, for the active clip, by the swap to a standby clip that was ready.
C30_ReadinessNotCarriedOver ==
  [][ /\ last'.ev = "PlayerPropsChange"
         => ( /\ mh'.currentVideoReady
                 => (Len(mh'.validVideoUrls) = 0 \/ ~ActiveElement(mh').ex)
              /\ mh'.nextVideoReady
                 => (Len(mh'.validVideoUrls) <= 1 \/ ~mh'[OtherSlot(mh'.activeVideoRef)].ex)
              /\ mh'.audioElementReady
                 => (Falsy(mh'.activeAudioUrl) \/ ~mh'.audio.ex) )
      /\ (WithinPlaylistEvent /\ ~mh.currentVideoReady /\ mh'.currentVideoReady
            /\ Len(mh'.validVideoUrls) > 0)
         => \/ ( /\ last'.ev = "VideoCanPlay" /\ last'.slot = mh'.activeVideoRef
                 /\ mh'[last'.slot].src = mh'.activeVideoUrl )
            \/ (mh'.activeVideoRef # mh.activeVideoRef /\ mh.nextVideoReady)
      /\ (WithinPlaylistEvent /\ ~mh.nextVideoReady /\ mh'.nextVideoReady
            /\ Len(mh'.validVideoUrls) > 1)
         => (last'.ev = "VideoCanPlay" /\ mh'[last'.slot].src = StandbyClip(mh'))
      /\ (WithinPlaylistEvent /\ ~mh.audioElementReady /\ mh'.audioElementReady
            /\ ~Falsy(mh'.activeAudioUrl))
         => ( /\ last'.ev \in {"AudioCanPlayThrough", "AudioError"}
              /\ mh'.audio.src = mh'.activeAudioUrl ) ]_vars

(***************************************************************************)
(* Properties of teardown and of the URLs.                                 *)
(***************************************************************************)
\* the media elements of the player are paused and hold no source
Released(w) ==
  \A e \in MediaElements : w[e].ex => (w[e].paused /\ w[e].src = EmptyUrl)

\* C31: a step that discards the page component or restarts leaves no create
\* or submit request in flight, no WebSocket open, and the player gone with its
\* two video elements and its audio element paused and their sources cleared.
C31_TeardownReleasesAll ==
  [][last'.ev \in {"PageDiscard", "RestartClick"}
     => ( /\ net'.create # "pending" /\ net'.respond = 0 /\ net'.orphaned = 0
          /\ net'.sockets = {}
          /\ ~mh'.mounted
          /\ mh.mounted => Released(unmountCleanup(mh)) )]_vars

\* URL normalisation on its own: a URL of up to MaxUrlLen tokens is formatted
\* as lines 45 and 66 do, and the result is formatted again
MaxUrlLen == 3

UrlTokens == {"/", "http", "httpdocs", "clip"}

RawUrls == UNION {[1..n -> UrlTokens] : n \in 1..MaxUrlLen}

InitUrl ==
  /\ mh = Unmounted
  /\ pg = NoPage
  /\ \E u \in RawUrls : net = [url |-> u, formatted |-> 0]
  /\ last = [ev |-> "Init", slot |-> "none", msg |-> NoMsg, threw |-> FALSE, audioEnded |-> FALSE]
  /\ budget = [loads |-> 0, begins |-> 0, msgs |-> 0, submits |-> 0]

FormatStep ==
  /\ net.formatted < 2
  /\ net' = [url |-> FormatUrl(net.url), formatted |-> net.formatted + 1]
  /\ last' = [last EXCEPT !.ev = "FormatUrl"]
  /\ UNCHANGED <<mh, pg, budget>>

SpecUrl == InitUrl /\ [][FormatStep]_vars

\* C32: formatting a URL that is not absolute gives a path with exactly one
\* leading '/' followed by the URL without its leading slashes, however many
\* it had; an absolute URL is returned unchanged; and formatting the result
\* again returns it unchanged.
C32_UrlNormalized ==
  [][last'.ev = "FormatUrl"
     => LET u == net.url
            f == net'.url
        IN /\ ~IsAbsolute(u)
              => ( /\ Head(f) = "/"
                   /\ Tail(f) = StripLeadingSlashes(u)
                   /\ (Len(f) > 1 => f[2] # "/") )
           /\ IsAbsolute(u) => f = u
           /\ FormatUrl(f) = f ]_vars

(***************************************************************************)
(* Properties of the playlist cursor and of the swap.                      *)
(***************************************************************************)
\* C33: when the active clip has ended with the standby clip not ready and the
\* standby clip has become ready since (no clip having failed), the next
\* re-check sees it: the step of the re-check timer swaps the slots and sets
\* no further timer.
C33_RecheckSeesReadiness ==
  [][(last'.ev = "RecheckTimer" /\ ~mh.error
        /\ mh.nextVideoReady /\ Len(mh.validVideoUrls) > 1
        /\ mh[OtherSlot(mh.activeVideoRef)].ls = "canplay")
     => (mh'.activeVideoRef # mh.activeVideoRef /\ ~mh'.recheckPending)]_vars

\* the step is a swap: an event of the mounted player changes the active slot
SwapStep == WithinPlaylistEvent /\ mh'.activeVideoRef # mh.activeVideoRef

C35_IndexInRange ==
  (mh.mounted /\ Len(mh.validVideoUrls) > 0)
  => ( /\ mh.currentVideoIndex \in 0 .. (Len(mh.validVideoUrls) - 1)
       /\ mh.activeVideoUrl = mh.validVideoUrls[mh.currentVideoIndex + 1] )

\* C35 witness: the only clip of a playlist has ended and the slots were
\* swapped: the index has wrapped around to 0 and the buffer slot holds the
\* clip.
C35_IndexWrappedAround ==
  /\ mh.mounted /\ last.ev = "VideoEnded" /\ Len(mh.validVideoUrls) = 1
  /\ mh.activeVideoRef = "buffer" /\ mh.currentVideoIndex = 0
  /\ mh.activeVideoUrl = mh.validVideoUrls[1]
  /\ mh.buffer.src = mh.validVideoUrls[1]

\* the step loads a playlist: the player is mounted or gets new props
PlaylistLoadStep == last'.ev \in {"PlayerMount", "PlayerPropsChange"}

\* C36: after a playlist load the active slot is primary and the index 0, the
\* primary element holds clip 0, the buffer element holds clip 1 when the
\* playlist has more than one clip and is left as it was otherwise, and the
\* audio element holds the audio URL.
C36_PlaylistLoadResetsCursor ==
  [][PlaylistLoadStep
     => LET n == Len(mh'.validVideoUrls)
        IN /\ mh'.activeVideoRef = "primary" /\ mh'.currentVideoIndex = 0
           /\ n > 0 => (mh'.primary.ex /\ mh'.primary.src = mh'.validVideoUrls[1])
           /\ n > 1 => (mh'.buffer.ex /\ mh'.buffer.src = mh'.validVideoUrls[2])
           /\ (n <= 1 /\ mh.mounted /\ mh.buffer.ex /\ mh'.buffer.ex)
              => mh'.buffer.src = mh.buffer.src
           /\ ~Falsy(mh'.activeAudioUrl)
              => (mh'.audio.ex /\ mh'.audio.src = mh'.activeAudioUrl) ]_vars

(***************************************************************************)
(* The conclusion of a session.  The frames below carry, as the record of   *)
(* turn 2, a scenario with or without a grade, with or without an          *)
(* explanation and with or without clips of its own; they name turn 1 or   *)
(* turn 2 as the current one and are complete or not, so that the record   *)
(* line 86 resolves is the one of turn 1, the one of turn 2, or none.      *)
(***************************************************************************)
Grades == {NoGrade, <<0>>, <<100>>}

Explanations == {"", "E"}

GradedTurns ==
  {Turn(2, videos, A2, Conclusion("S2", grade, explanation)) :
     videos \in {<<>>, <<V3>>}, grade \in Grades, explanation \in Explanations}

GradedMessages ==
  {Simulation("simulation_state", "sim1", n, complete, 2, 2, <<Turn1, t>>) :
     n \in {1, 2}, complete \in BOOLEAN, t \in GradedTurns}

NextGrade ==
  \/ BeginClick
  \/ \E d \in CreateResponses : CreateResponse(d)
  \/ \E m \in GradedMessages : ReceiveState(m)
  \/ LoadingTimer
  \/ RestartClick

SpecGrade == InitPage /\ [][NextGrade]_vars

\* the turn record a state frame is resolved to (lines 84-87)
ResolvedTurn(m) == FindTurn(m.turns, CheckTurn(m, OrNumber(m.current_turn_number, 1)))

\* C37: a state push whose resolved scenario has a grade, 0 included, shows the
\* conclusion with that grade, the explanation of the scenario ("" when it has
\* none) and the clips and audio resolved from the same frame; a push whose
\* resolved scenario has no grade leaves the conclusion state as it is.
C37_GradeSetsConclusion ==
  [][last'.ev = "ReceiveState"
     => LET m == last'.msg
            t == ResolvedTurn(m)
        IN IF t.found /\ t.scenario.present /\ t.scenario.grade # NoGrade
           THEN /\ pg'.showConclusion /\ pg'.conclusionData.present
                /\ pg'.conclusionData.grade = t.scenario.grade
                /\ pg'.conclusionData.gradeExplanation = t.scenario.grade_explanation
                /\ pg'.conclusionData.videoUrls
                     = (IF t.video_urls = Undefined THEN <<>> ELSE t.video_urls)
                /\ pg'.conclusionData.audioUrl = t.audio_url
           ELSE /\ pg'.conclusionData = pg.conclusionData
                /\ pg'.showConclusion = pg.showConclusion ]_vars

\* a frame with grade 0 and no explanation has concluded the session
C37_ConcludedWithGradeZero ==
  /\ last.ev = "ReceiveState" /\ pg.showConclusion /\ pg.conclusionData.present
  /\ pg.conclusionData.grade = <<0>> /\ pg.conclusionData.gradeExplanation = ""
  /\ ResolvedTurn(last.msg).scenario.grade = <<0>>

Concluded(p) == p.showConclusion /\ p.conclusionData.present

\* C38: once a push has concluded the session, every step other than the
\* restart, a later state push or progress message included, leaves it
\* concluded.
C38_ConclusionIsSticky ==
  [][(Concluded(pg) /\ last'.ev # "RestartClick") => Concluded(pg')]_vars

\* a push without a grade has arrived in the concluded session
C38_UngradedPushAfterConclusion ==
  /\ Concluded(pg) /\ last.ev = "ReceiveState"
  /\ ResolvedTurn(last.msg).scenario.grade = NoGrade

\* what a submission must not touch: the turn, the counters, the media and
\* the conclusion
SessionCore(p) ==
  [turn |-> p.turn, submissionCount |-> p.submissionCount, maxTurns |-> p.maxTurns,
   currentVideoUrls |-> p.currentVideoUrls, currentAudioUrl |-> p.currentAudioUrl,
   showConclusion |-> p.showConclusion, conclusionData |-> p.conclusionData]

\* the submit event got past the early returns of lines 219-231
SubmitStep == last'.ev = "FormSubmit" /\ ~SubmitBlocked(pg)

\* C39: a submit that fails leaves turn, submissionCount, maxTurns, the media
\* URLs and the conclusion state as they were: the submit only appends the
\* user entry to the history, clears the input, resets the progress flags and
\* sets isLoading; the failure only sets the error message and clears
\* isLoading, the user entry stays in the history.
C39_FailedSubmitKeepsSession ==
  [][/\ SubmitStep
        => /\ SessionCore(pg') = SessionCore(pg)
           /\ pg'.history = Append(pg.history, [role |-> "user", content |-> <<pg.userInput>>])
           /\ pg'.userInput = ""
           /\ ~pg'.scenarioGenerated /\ ~pg'.videosGenerated /\ ~pg'.audioGenerated
           /\ pg'.isLoading /\ pg'.error = pg.error
           /\ pg' = [pg EXCEPT !.history = pg'.history, !.userInput = "", !.isLoading = TRUE,
                               !.scenarioGenerated = FALSE, !.videosGenerated = FALSE,
                               !.audioGenerated = FALSE]
     /\ last'.ev = "RespondFailed"
        => /\ SessionCore(pg') = SessionCore(pg)
           /\ pg'.error # "" /\ ~pg'.isLoading
           /\ pg' = [pg EXCEPT !.error = pg'.error, !.isLoading = FALSE] ]_vars

\* a submission has failed: the error is shown, the entry of the user is the
\* last of the history and the input is empty
C39_SubmitFailed ==
  /\ last.ev = "RespondFailed" /\ pg.error # "" /\ ~pg.isLoading /\ pg.userInput = ""
  /\ pg.history # <<>> /\ pg.history[Len(pg.history)].role = "user"

\* C40: while the create request is pending, and once a session id is set,
\* the Begin button, the only caller of initializeSimulation, cannot be
\* used: no second create request is issued.
C40_OneCreateInFlight ==
  (net.create = "pending" \/ pg.simulationId # "") => ~BeginAvailable(pg)

\* the create request is in flight
C40_CreatePending ==
  /\ last.ev = "BeginClick" /\ net.create = "pending"
  /\ pg.simulationStarted /\ pg.isLoading /\ pg.simulationId = ""

====
